---- MODULE Spec2Model ----
(***************************************************************************)
(* Conway's Game of Life on a wraparound grid: the board (board.rs), the   *)
(* transition engine and the resize operator (logic.rs), and the real-time *)
(* control loop (apps/tui/src/tui.rs, identical in src/main.rs).           *)
(*                                                                         *)
(* logic.rs is written against the two-variant cell {Dead, Live} (the      *)
(* exhaustive match of game/tui.rs:86-89); a cell of the board is one of   *)
(* these two values.  Positions are pairs <<x, y>>, zero based as in the   *)
(* source; the cell vector `inner` is a TLA+ sequence, so the cell of      *)
(* <<x, y>> is inner[y * width + x + 1].                                   *)
(***************************************************************************)
EXTENDS Integers, Sequences, FiniteSets, TLC

VARIABLES
    board,                  \* the grid owned by the caller: [width, height, inner]
    life_log,               \* the map position -> CellLifecycle handed to next_state
    changed,                \* the value returned by the last call: the bool of
                            \* next_state, the cell of an index read
    panicked,               \* TRUE once a call has panicked (the call did not return)
    pre,                    \* the board as it was when the last operation was entered
    op,                     \* the last operation and its arguments
    pc,                     \* position of the control loop
    pause_state,            \* PauseState of the control loop
    frame_duration,         \* Duration between generations, in nanoseconds
    now,                    \* the monotonic clock (Instant::now()), in nanoseconds
    start,                  \* `start` of the current loop iteration
    last_updated,           \* Instant of the last generation advance
    should_compute_state,   \* the flag computed at the top of the iteration
    iter,                   \* what the current loop iteration has done so far
    origin,                 \* the pattern the board was set up with
    poller                  \* the input thread of the threaded variant

vars == <<board, life_log, changed, panicked, pre, op, pc, pause_state,
          frame_duration, now, start, last_updated, should_compute_state, iter,
          origin, poller>>

otherVars == <<origin, poller>>

logicVars == <<board, life_log, changed, panicked, pre, op>>
loopVars == <<pc, pause_state, frame_duration, now, start, last_updated,
              should_compute_state, iter>>

-----------------------------------------------------------------------------
(* Bounds of the model.                                                    *)

\* widest and highest grid of the engine specification
MaxW == 3
MaxH == 3

\* largest terminal width and height the control loop is given
TermW == 2
TermH == 2

\* the clock of the control loop stops after MaxSlices polling budgets
MaxSlices == 6

\* how many times the frame duration may be halved below, and doubled
\* above, its initial value
MaxSpeedUps == 1
MaxSpeedDowns == 1

\* smallest and largest width and height of the grids that carry a pattern
PatMin == 4
PatMax == 5

\* in the specification of the speed events alone the frame duration is
\* doubled up to InitFrame * 2^MaxDoublings, which TLC's integers hold
MaxDoublings == 4

\* the input thread reads at most MaxReads terminal events
MaxReads == 2

\* the boards of four-variant cells are one row of up to MaxRow cells
MaxRow == 3

-----------------------------------------------------------------------------
(* board.rs                                                                *)

Cell == {"Dead", "Live"}

\* Option::None of an index
None == <<>>

\* the value of a call that panicked instead of returning a cell
Panic == "Panic"

\* Cell::flip of the two-variant cell: dead becomes live, live becomes dead
flip(cell) == IF cell = "Live" THEN "Dead" ELSE "Live"

\* the four-variant Cell of board.rs
Cell_variants == {"Died", "Dead", "Born", "Alive"}

\* Cell::is_alive
Cell_is_alive(cell) ==
    CASE cell = "Died" -> FALSE
      [] cell = "Dead" -> FALSE
      [] cell = "Born" -> TRUE
      [] cell = "Alive" -> TRUE

\* a flip that does not record the transition
Cell_flip_unmarked(cell) == IF Cell_is_alive(cell) THEN "Dead" ELSE "Alive"

\* Cell::flip
Cell_flip(cell) == IF Cell_is_alive(cell) THEN "Died" ELSE "Born"

width(b) == b.width
height(b) == b.height

\* the condition under which Board::new panics
Board_new_panics_zero_both(w, h) == w = 0 /\ h = 0
Board_new_panics(w, h) == w = 0 \/ h = 0

\* a constructor that swaps the two dimensions
Board_new_transposed(w, h) ==
    [width |-> h, height |-> w, inner |-> [i \in 1..(w * h) |-> "Dead"]]

\* Board::new where it returns: vec![Cell::Dead; width * height]
Board_new(w, h) ==
    [width |-> w, height |-> h, inner |-> [i \in 1..(w * h) |-> "Dead"]]

check_index(b, p) == p[1] < width(b) /\ p[2] < height(b)

\* assertions that reject the last row as well
index_asserts_short(b, p) == p[1] < b.width /\ p[2] + 1 < b.height

\* the two assert! of index, index_mut and set
index_asserts(b, p) == p[1] < b.width /\ p[2] < b.height

\* Index::index: both assertions, then inner[y * width + x]
Index(b, p) ==
    IF index_asserts(b, p)
    THEN b.inner[p[2] * b.width + p[1] + 1]
    ELSE Panic

\* IndexMut::index_mut followed by the assignment of `cell` through it
IndexMut(b, p, cell) ==
    IF index_asserts(b, p)
    THEN [b EXCEPT !.inner[p[2] * b.width + p[1] + 1] = cell]
    ELSE Panic

\* Board::set: both assertions, then inner[y * width + x] = cell
Board_set(b, p, cell) ==
    IF index_asserts(b, p)
    THEN [b EXCEPT !.inner[p[2] * b.width + p[1] + 1] = cell]
    ELSE Panic

Entry(cell, index) == [cell |-> cell, index |-> index]

\* an increment that walks along a row first
increment_index_row_major(index, w, h) ==
    LET x1 == index[1] + 1
        y2 == IF x1 >= w THEN index[2] + 1 ELSE index[2]
        x2 == IF x1 >= w THEN 0 ELSE x1
    IN  IF x2 >= w \/ y2 >= h THEN None ELSE <<x2, y2>>

\* BoardIter::increment_index, on an index that is Some((x, y))
increment_index(index, w, h) ==
    LET y1 == index[2] + 1
        x2 == IF y1 >= h THEN index[1] + 1 ELSE index[1]
        y2 == IF y1 >= h THEN 0 ELSE y1
    IN  IF x2 >= w \/ y2 >= h THEN None ELSE <<x2, y2>>

\* BoardIter::next, called until it returns None
RECURSIVE BoardIter_next(_, _)
BoardIter_next(b, index) ==
    IF index = None
    THEN <<>>
    ELSE <<Entry(Index(b, index), index)>>
         \o BoardIter_next(b, increment_index(index, width(b), height(b)))

\* Board::iter: a fresh traversal from Some((0, 0))
iter_entries(b) == BoardIter_next(b, <<0, 0>>)

-----------------------------------------------------------------------------
(* logic.rs                                                                *)

\* isize::rem_euclid for a positive modulus
rem_euclid(a, n) == a % n

valid_neighbour_index_clamped(b, u, x, y) ==
    IF (x = u[1] /\ y = u[2]) \/ x < 0 \/ y < 0 \/ x >= width(b) \/ y >= height(b)
    THEN None
    ELSE <<x, y>>

\* the remainder of Rust's `%`, which keeps the sign of the dividend
rem_truncated(a, n) == IF a < 0 THEN 0 - ((0 - a) % n) ELSE a % n

valid_neighbour_index_rem(b, u, x, y) ==
    IF x = u[1] /\ y = u[2]
    THEN None
    ELSE <<rem_truncated(x, width(b)), rem_truncated(y, height(b))>>

valid_neighbour_index(b, u, x, y) ==
    IF x = u[1] /\ y = u[2]
    THEN None
    ELSE <<rem_euclid(x, width(b)), rem_euclid(y, height(b))>>

\* the nine (x, y) of the two nested loops, in the order they are visited
neighbour_loop(u) ==
    [i \in 1..9 |-> <<u[1] - 1 + ((i - 1) \div 3), u[2] - 1 + ((i - 1) % 3)>>]

RECURSIVE count_loop(_, _, _, _)
count_loop(b, u, xy, live_neighbours) ==
    IF xy = <<>>
    THEN live_neighbours
    ELSE LET index == valid_neighbour_index(b, u, Head(xy)[1], Head(xy)[2])
         IN  count_loop(b, u, Tail(xy),
                 IF index # None /\ Index(b, index) = "Live"
                 THEN live_neighbours + 1
                 ELSE live_neighbours)

count_live_neighbours(b, u) == count_loop(b, u, neighbour_loop(u), 0)

\* the match with `<= 2` in the underpopulation arm
new_cell_underpop_le(cell, live_neighbours) ==
    IF cell = "Dead" /\ live_neighbours = 3 THEN [cell |-> "Live", log |-> "Born"]
    ELSE IF cell = "Live" /\ live_neighbours <= 2 THEN [cell |-> "Dead", log |-> "Died"]
    ELSE IF cell = "Live" /\ live_neighbours > 3 THEN [cell |-> "Dead", log |-> "Died"]
    ELSE [cell |-> cell, log |-> "None"]

\* the match with `>= 3` in the overpopulation arm
new_cell_overpop_ge(cell, live_neighbours) ==
    IF cell = "Dead" /\ live_neighbours = 3 THEN [cell |-> "Live", log |-> "Born"]
    ELSE IF cell = "Live" /\ live_neighbours < 2 THEN [cell |-> "Dead", log |-> "Died"]
    ELSE IF cell = "Live" /\ live_neighbours >= 3 THEN [cell |-> "Dead", log |-> "Died"]
    ELSE [cell |-> cell, log |-> "None"]

\* the match of next_state: the new cell and the lifecycle the arm logs
\* ("None" for the arm that logs nothing)
new_cell(cell, live_neighbours) ==
    IF cell = "Dead" /\ live_neighbours = 3 THEN [cell |-> "Live", log |-> "Born"]
    ELSE IF cell = "Live" /\ live_neighbours < 2 THEN [cell |-> "Dead", log |-> "Died"]
    ELSE IF cell = "Live" /\ live_neighbours > 3 THEN [cell |-> "Dead", log |-> "Died"]
    ELSE [cell |-> cell, log |-> "None"]

\* HashMap::insert on the log, a function from positions to lifecycles
log_insert(log, index, lifecycle) ==
    [k \in (DOMAIN log) \cup {index} |-> IF k = index THEN lifecycle ELSE log[k]]

\* the same loop with the neighbours counted on the board being written
RECURSIVE next_state_loop_inplace(_, _, _)
next_state_loop_inplace(b, log, entries) ==
    IF entries = <<>>
    THEN [board |-> b, life_log |-> log]
    ELSE LET entry == Head(entries)
             new == new_cell(entry.cell, count_live_neighbours(b, entry.index))
         IN  next_state_loop_inplace(IndexMut(b, entry.index, new.cell),
                 IF new.log = "None" THEN log
                 ELSE log_insert(log, entry.index, new.log),
                 Tail(entries))

\* the for loop of next_state over the entries of the snapshot
RECURSIVE next_state_loop(_, _, _, _)
next_state_loop(b, snapshot, log, entries) ==
    IF entries = <<>>
    THEN [board |-> b, life_log |-> log]
    ELSE LET entry == Head(entries)
             cell == entry.cell
             live_neighbours == count_live_neighbours(snapshot, entry.index)
             new == new_cell(cell, live_neighbours)
         IN  next_state_loop(IndexMut(b, entry.index, new.cell), snapshot,
                 IF new.log = "None" THEN log
                 ELSE log_insert(log, entry.index, new.log),
                 Tail(entries))

next_state_inplace(b, log) ==
    LET r == next_state_loop_inplace(b, log, iter_entries(b))
    IN  [board |-> r.board, life_log |-> r.life_log, changed |-> r.board # b]

next_state_grew(b, log) ==
    LET r == next_state_loop(b, b, log, iter_entries(b))
    IN  [board |-> r.board, life_log |-> r.life_log,
         changed |-> \E i \in DOMAIN b.inner :
                         b.inner[i] = "Dead" /\ r.board.inner[i] = "Live"]

\* next_state: snapshot = board.clone(), the loop, then *board != snapshot
next_state(b, log) ==
    LET snapshot == b
        r == next_state_loop(b, snapshot, log, iter_entries(snapshot))
    IN  [board |-> r.board, life_log |-> r.life_log,
         changed |-> r.board # snapshot]

\* the chain of resize with the liveness test left out of the filter
RECURSIVE resize_loop_anycell(_, _, _, _)
resize_loop_anycell(new_board, entries, x, y) ==
    IF entries = <<>>
    THEN new_board
    ELSE LET entry == Head(entries)
         IN  resize_loop_anycell(
                 IF entry.index[1] < x /\ entry.index[2] < y
                 THEN IndexMut(new_board, entry.index,
                               flip(Index(new_board, entry.index)))
                 ELSE new_board,
                 Tail(entries), x, y)

\* the filter / map / for_each chain of resize over the old board's entries
RECURSIVE resize_loop(_, _, _, _)
resize_loop(new_board, entries, x, y) ==
    IF entries = <<>>
    THEN new_board
    ELSE LET entry == Head(entries)
         IN  resize_loop(
                 IF entry.cell = "Live" /\ entry.index[1] < x /\ entry.index[2] < y
                 THEN IndexMut(new_board, entry.index,
                               flip(Index(new_board, entry.index)))
                 ELSE new_board,
                 Tail(entries), x, y)

resize_anycell(b, x, y) == resize_loop_anycell(Board_new(x, y), iter_entries(b), x, y)

\* resize where Board::new returns: the board that replaces *board
resize(b, x, y) == resize_loop(Board_new(x, y), iter_entries(b), x, y)

-----------------------------------------------------------------------------
(* The engine specification: a caller that builds a board, flips cells,    *)
(* resizes and advances it.  It hands every next_state call a new, empty   *)
(* log and keeps the value the call returned until its next operation.     *)

\* HashMap::new()
EmptyLog == [k \in {} |-> "Born"]

\* what the caller holds when Board::new has panicked
NoBoard == [width |-> 0, height |-> 0, inner |-> <<>>]

Positions(b) == (0..(width(b) - 1)) \X (0..(height(b) - 1))

\* no pattern was set up, no input thread was spawned
NoOrigin == [kind |-> "none"]
NoPoller == [pc |-> "none"]

OthersIdle == origin = NoOrigin /\ poller = NoPoller

\* the control loop before it has started
LoopIdle ==
    /\ pc = "idle"
    /\ pause_state = "Disabled"
    /\ frame_duration = 0
    /\ now = 0
    /\ start = 0
    /\ last_updated = 0
    /\ should_compute_state = FALSE
    /\ iter = <<>>

InitLogic ==
    /\ \E w \in 0..MaxW, h \in 0..MaxH :
          /\ op = [name |-> "new", x |-> w, y |-> h]
          /\ panicked = Board_new_panics(w, h)
          /\ board = IF Board_new_panics(w, h) THEN NoBoard ELSE Board_new(w, h)
    /\ pre = NoBoard
    /\ life_log = EmptyLog
    /\ changed = None
    /\ LoopIdle
    /\ OthersIdle

\* board.index_mut(p).flip() on a position of the board
Flip(p) ==
    /\ ~panicked
    /\ check_index(board, p)
    /\ board' = IndexMut(board, p, flip(Index(board, p)))
    /\ pre' = board
    /\ op' = [name |-> "flip", x |-> p[1], y |-> p[2]]
    /\ life_log' = EmptyLog
    /\ changed' = None
    /\ UNCHANGED <<panicked>>
    /\ UNCHANGED loopVars
    /\ UNCHANGED otherVars

\* resize(&mut board, x, y): Board::new panics before *board is assigned
Resize(x, y) ==
    /\ ~panicked
    /\ pre' = board
    /\ op' = [name |-> "resize", x |-> x, y |-> y]
    /\ IF Board_new_panics(x, y)
       THEN /\ panicked' = TRUE
            /\ UNCHANGED board
       ELSE /\ board' = resize(board, x, y)
            /\ UNCHANGED panicked
    /\ life_log' = EmptyLog
    /\ changed' = None
    /\ UNCHANGED loopVars
    /\ UNCHANGED otherVars

\* changed = next_state(&mut board, &mut HashMap::new())
NextState ==
    /\ ~panicked
    /\ LET r == next_state(board, EmptyLog)
       IN  /\ board' = r.board
           /\ life_log' = r.life_log
           /\ changed' = r.changed
    /\ pre' = board
    /\ op' = [name |-> "next_state", x |-> 0, y |-> 0]
    /\ UNCHANGED <<panicked>>
    /\ UNCHANGED loopVars
    /\ UNCHANGED otherVars

NextLogic ==
    \/ \E p \in (0..(MaxW - 1)) \X (0..(MaxH - 1)) : Flip(p)
    \/ \E x \in 0..MaxW, y \in 0..MaxH : Resize(x, y)
    \/ NextState

SpecLogic == InitLogic /\ [][NextLogic]_vars

-----------------------------------------------------------------------------
(* The board accessors: a caller that builds a board and then reads and    *)
(* writes single cells at any position, in bounds or not.  `changed` keeps *)
(* what a read returned; a failed assertion ends the caller.               *)

\* the positions a caller may pass, one past the largest board each way
AnyPosition == (0..MaxW) \X (0..MaxH)

InitBoard == InitLogic

\* board[p]
Get(p) ==
    /\ ~panicked
    /\ pre' = board
    /\ op' = [name |-> "index", x |-> p[1], y |-> p[2]]
    /\ changed' = Index(board, p)
    /\ panicked' = ~index_asserts(board, p)
    /\ UNCHANGED <<board, life_log>>
    /\ UNCHANGED loopVars
    /\ UNCHANGED otherVars

\* a write of `cell` at p: an assertion fails, or the board is `written`
Write(name, p, cell, written) ==
    /\ ~panicked
    /\ pre' = board
    /\ op' = [name |-> name, x |-> p[1], y |-> p[2], cell |-> cell]
    /\ changed' = None
    /\ IF ~index_asserts(board, p)
       THEN /\ panicked' = TRUE
            /\ UNCHANGED board
       ELSE /\ board' = written
            /\ UNCHANGED panicked
    /\ UNCHANGED life_log
    /\ UNCHANGED loopVars
    /\ UNCHANGED otherVars

\* board.set(p, cell)
Set(p, cell) == Write("set", p, cell, Board_set(board, p, cell))

\* board[p] = cell
IndexAssign(p, cell) == Write("index_mut", p, cell, IndexMut(board, p, cell))

NextBoard ==
    \/ \E p \in AnyPosition : Get(p)
    \/ \E p \in AnyPosition, cell \in Cell : Set(p, cell)
    \/ \E p \in AnyPosition, cell \in Cell : IndexAssign(p, cell)

SpecBoard == InitBoard /\ [][NextBoard]_vars

-----------------------------------------------------------------------------
(* The cell of board.rs: a caller holds a row of four-variant cells in any *)
(* of their states and flips one cell after another.                       *)

InitCells ==
    /\ \E n \in 1..MaxRow :
          \E inner \in [1..n -> Cell_variants] :
              board = [width |-> n, height |-> 1, inner |-> inner]
    /\ panicked = FALSE
    /\ op = [name |-> "none", x |-> 0, y |-> 0]
    /\ pre = NoBoard
    /\ life_log = EmptyLog
    /\ changed = None
    /\ LoopIdle
    /\ OthersIdle

\* board[p].flip()
FlipCell(p) ==
    /\ check_index(board, p)
    /\ board' = IndexMut(board, p, Cell_flip(Index(board, p)))
    /\ pre' = board
    /\ op' = [name |-> "cell_flip", x |-> p[1], y |-> p[2]]
    /\ UNCHANGED <<panicked, life_log, changed>>
    /\ UNCHANGED loopVars
    /\ UNCHANGED otherVars

NextCells == \E p \in (0..(MaxRow - 1)) \X {0} : FlipCell(p)

SpecCells == InitCells /\ [][NextCells]_vars

-----------------------------------------------------------------------------
(* The life log: a caller owns one HashMap, starts from any grid with the  *)
(* map empty, and passes the same map to every next_state call, as the     *)
(* `&mut HashMap` parameter lets it.                                       *)

InitLog ==
    /\ \E w \in 1..MaxW, h \in 1..MaxH :
          \E inner \in [1..(w * h) -> Cell] :
              /\ board = [width |-> w, height |-> h, inner |-> inner]
              /\ op = [name |-> "new", x |-> w, y |-> h]
    /\ panicked = FALSE
    /\ pre = NoBoard
    /\ life_log = EmptyLog
    /\ changed = None
    /\ LoopIdle
    /\ OthersIdle

\* changed = next_state(&mut board, &mut life_log)
NextStateSameLog ==
    /\ LET r == next_state(board, life_log)
       IN  /\ board' = r.board
           /\ life_log' = r.life_log
           /\ changed' = r.changed
    /\ pre' = board
    /\ op' = [name |-> "next_state", x |-> 0, y |-> 0]
    /\ UNCHANGED <<panicked>>
    /\ UNCHANGED loopVars
    /\ UNCHANGED otherVars

NextLog == NextStateSameLog

SpecLog == InitLog /\ [][NextLog]_vars

-----------------------------------------------------------------------------
(* apps/tui/src/tui.rs: main_loop (the same loop is main of src/main.rs)   *)

\* Duration::from_millis(64), in nanoseconds
InitFrame == 64000000

\* Duration::from_millis(16), the polling budget of one iteration
PollBudget == 16000000

\* the seed: at most 25 cells of the diagonal
SeedLen == 25

MaxNow == MaxSlices * PollBudget

RECURSIVE Pow2(_)
Pow2(n) == IF n = 0 THEN 1 ELSE 2 * Pow2(n - 1)

Min(a, b) == IF a < b THEN a ELSE b

\* Option::Some of a Duration
Some(d) == <<d>>

\* for i in 0..min(25, min(width, height)) { board.index_mut((i, i)).flip() }
RECURSIVE seed_loop(_, _, _)
seed_loop(b, i, n) ==
    IF i >= n THEN b
    ELSE seed_loop(IndexMut(b, <<i, i>>, flip(Index(b, <<i, i>>))), i + 1, n)

seed(b) == seed_loop(b, 0, Min(SeedLen, Min(width(b), height(b))))

\* remaining_time(start, frame_duration), with `t` the value of Instant::now()
remaining_time(t, start_, frame_duration_) ==
    LET passed == t - start_
    IN  IF passed >= frame_duration_ THEN None ELSE Some(frame_duration_ - passed)

\* a halving that rounds up instead of truncating
speed_round_up(fd, increase) == IF increase THEN (fd + 1) \div 2 ELSE fd * 2

\* the arm of BoardEvent::Speed(increase) on a Duration in nanoseconds:
\* Duration / 2 truncates to the nanosecond
speed(fd, increase) == IF increase THEN fd \div 2 ELSE fd * 2

\* the arm of BoardEvent::Pause
on_pause(ps) == IF ps # "Disabled" THEN "Disabled" ELSE "JustEnabled"

is_paused_no_activate(ps) ==
    IF ps = "Disabled" THEN [is_paused |-> FALSE, pause_state |-> ps]
    ELSE IF ps = "JustEnabled" THEN [is_paused |-> FALSE, pause_state |-> ps]
    ELSE [is_paused |-> TRUE, pause_state |-> ps]

is_paused_just_enabled(ps) ==
    IF ps = "Disabled" THEN [is_paused |-> FALSE, pause_state |-> ps]
    ELSE IF ps = "JustEnabled" THEN [is_paused |-> TRUE, pause_state |-> "Activated"]
    ELSE [is_paused |-> TRUE, pause_state |-> ps]

is_paused_disabled_late(ps) ==
    IF ps = "Disabled" THEN [is_paused |-> TRUE, pause_state |-> ps]
    ELSE IF ps = "JustEnabled" THEN [is_paused |-> FALSE, pause_state |-> "Activated"]
    ELSE [is_paused |-> TRUE, pause_state |-> ps]

\* let is_paused = match pause_state { .. }: the flag and the new pause state
is_paused(ps) ==
    IF ps = "Disabled" THEN [is_paused |-> FALSE, pause_state |-> ps]
    ELSE IF ps = "JustEnabled" THEN [is_paused |-> FALSE, pause_state |-> "Activated"]
    ELSE [is_paused |-> TRUE, pause_state |-> ps]

\* the record of one loop iteration: what it has done so far
NewIter(fd, last) ==
    [enabled |-> FALSE,       \* a pause input moved Disabled to JustEnabled
     resumed |-> FALSE,       \* a pause input moved Activated to Disabled
     exited |-> FALSE,        \* an Exit event was handled
     advanced |-> 0,          \* calls of next_state
     after_poll |-> "None",   \* the pause state when the polling slice ended
     done |-> FALSE,          \* the iteration ran to its end
     fd0 |-> fd,              \* frame_duration at the top of the iteration
     last0 |-> last]          \* last_updated at the top of the iteration

\* main_loop up to the loop: get_size, Board::new, the seed, the defaults
Init ==
    /\ \E w \in 0..TermW, h \in 0..TermH :
          IF Board_new_panics(w, h)
          THEN /\ board = NoBoard
               /\ panicked = TRUE
               /\ pc = "panicked"
          ELSE /\ board = seed(Board_new(w, h))
               /\ panicked = FALSE
               /\ pc = "start"
    /\ frame_duration = InitFrame
    /\ pause_state = "Disabled"
    /\ now = 0
    /\ last_updated = 0
    /\ start = 0
    /\ should_compute_state = FALSE
    /\ iter = NewIter(InitFrame, 0)
    /\ life_log = EmptyLog
    /\ changed = None
    /\ pre = NoBoard
    /\ op = [name |-> "none", x |-> 0, y |-> 0]
    /\ OthersIdle

engineGhosts == <<life_log, changed, pre, op>>

\* top of the loop: start, should_compute_state, then draw_board succeeds
LoopTop ==
    /\ pc = "start"
    /\ start' = now
    /\ should_compute_state' = (now > last_updated + frame_duration)
    /\ iter' = NewIter(frame_duration, last_updated)
    /\ pc' = "poll"
    /\ UNCHANGED <<board, panicked, pause_state, frame_duration, now, last_updated>>
    /\ UNCHANGED engineGhosts
    /\ UNCHANGED otherVars

\* top of the loop where draw_board returns Err: `?` leaves main_loop
DrawFails ==
    /\ pc = "start"
    /\ start' = now
    /\ should_compute_state' = (now > last_updated + frame_duration)
    /\ iter' = NewIter(frame_duration, last_updated)
    /\ pc' = "error"
    /\ UNCHANGED <<board, panicked, pause_state, frame_duration, now, last_updated>>
    /\ UNCHANGED engineGhosts
    /\ UNCHANGED otherVars

\* handle_events(timeout) returns Some(event) after `d` < timeout
Polling(d) ==
    /\ pc = "poll"
    /\ remaining_time(now, start, PollBudget) # None
    /\ d < remaining_time(now, start, PollBudget)[1]
    /\ now + d <= MaxNow
    /\ now' = now + d

\* the click arm with the coordinates taken in the other order
MouseClick_transposed(d, x, y) ==
    /\ Polling(d)
    /\ board' = IF check_index(board, <<y, x>>)
                THEN IndexMut(board, <<y, x>>, flip(Index(board, <<y, x>>)))
                ELSE board
    /\ UNCHANGED <<panicked, pc, pause_state, frame_duration, start, last_updated,
                   should_compute_state, iter>>
    /\ UNCHANGED engineGhosts
    /\ UNCHANGED otherVars

\* BoardEvent::MouseClick { x, y }
MouseClick(d, x, y) ==
    /\ Polling(d)
    /\ board' = IF check_index(board, <<x, y>>)
                THEN IndexMut(board, <<x, y>>, flip(Index(board, <<x, y>>)))
                ELSE board
    /\ UNCHANGED <<panicked, pc, pause_state, frame_duration, start, last_updated,
                   should_compute_state, iter>>
    /\ UNCHANGED engineGhosts
    /\ UNCHANGED otherVars

Exit_after_iteration(d) ==
    /\ Polling(d)
    /\ iter' = [iter EXCEPT !.exited = TRUE]
    /\ UNCHANGED <<pc, board, panicked, pause_state, frame_duration, start, last_updated,
                   should_compute_state>>
    /\ UNCHANGED engineGhosts
    /\ UNCHANGED otherVars

\* BoardEvent::Exit: break 'outer
Exit(d) ==
    /\ Polling(d)
    /\ pc' = "done"
    /\ iter' = [iter EXCEPT !.exited = TRUE]
    /\ UNCHANGED <<board, panicked, pause_state, frame_duration, start, last_updated,
                   should_compute_state>>
    /\ UNCHANGED engineGhosts
    /\ UNCHANGED otherVars

\* BoardEvent::Resized { x, y }: resize panics in Board::new on a zero size
Resized(d, x, y) ==
    /\ Polling(d)
    /\ IF Board_new_panics(x, y)
       THEN /\ panicked' = TRUE
            /\ pc' = "panicked"
            /\ UNCHANGED board
       ELSE /\ board' = resize(board, x, y)
            /\ UNCHANGED <<panicked, pc>>
    /\ UNCHANGED <<pause_state, frame_duration, start, last_updated,
                   should_compute_state, iter>>
    /\ UNCHANGED engineGhosts
    /\ UNCHANGED otherVars

\* BoardEvent::Pause
Pause(d) ==
    /\ Polling(d)
    /\ pause_state' = on_pause(pause_state)
    /\ iter' = [iter EXCEPT
                   !.enabled = @ \/ (pause_state = "Disabled"
                                     /\ pause_state' = "JustEnabled"),
                   !.resumed = @ \/ (pause_state = "Activated"
                                     /\ pause_state' = "Disabled")]
    /\ UNCHANGED <<board, panicked, pc, frame_duration, start, last_updated,
                   should_compute_state>>
    /\ UNCHANGED engineGhosts
    /\ UNCHANGED otherVars

\* BoardEvent::Speed(increase): frame_duration /= 2 or frame_duration *= 2
Speed(d, increase) ==
    /\ Polling(d)
    /\ IF increase
       THEN frame_duration * Pow2(MaxSpeedUps) > InitFrame
       ELSE frame_duration < InitFrame * Pow2(MaxSpeedDowns)
    /\ frame_duration' = speed(frame_duration, increase)
    /\ UNCHANGED <<board, panicked, pc, pause_state, start, last_updated,
                   should_compute_state, iter>>
    /\ UNCHANGED engineGhosts
    /\ UNCHANGED otherVars

\* handle_events returns None before the timeout: an event of no interest,
\* or an error of poll or read turned into None by ok()?
NoEvent(d) ==
    /\ Polling(d)
    /\ UNCHANGED <<board, panicked, pc, pause_state, frame_duration, start,
                   last_updated, should_compute_state, iter>>
    /\ UNCHANGED engineGhosts
    /\ UNCHANGED otherVars

\* poll waits the whole timeout and returns false
Timeout ==
    /\ pc = "poll"
    /\ remaining_time(now, start, PollBudget) # None
    /\ now + remaining_time(now, start, PollBudget)[1] <= MaxNow
    /\ now' = now + remaining_time(now, start, PollBudget)[1]
    /\ UNCHANGED <<board, panicked, pc, pause_state, frame_duration, start,
                   last_updated, should_compute_state, iter>>
    /\ UNCHANGED engineGhosts
    /\ UNCHANGED otherVars

\* the while let sees None, then the rest of the iteration: is_paused and
\* the conditional next_state with last_updated = Instant::now()
Decide ==
    /\ pc = "poll"
    /\ remaining_time(now, start, PollBudget) = None
    /\ LET m == is_paused(pause_state)
           advance == should_compute_state /\ ~m.is_paused
       IN  /\ pause_state' = m.pause_state
           /\ IF advance
              THEN /\ board' = next_state(board, EmptyLog).board
                   /\ last_updated' = now
              ELSE UNCHANGED <<board, last_updated>>
           /\ iter' = [iter EXCEPT !.after_poll = pause_state,
                                   !.advanced = IF advance THEN @ + 1 ELSE @,
                                   !.done = TRUE]
    /\ pc' = "start"
    /\ UNCHANGED <<panicked, frame_duration, now, start, should_compute_state>>
    /\ UNCHANGED engineGhosts
    /\ UNCHANGED otherVars

\* the delays after which an event can arrive within a polling slice
Delays == {0, PollBudget \div 2}

Next ==
    \/ LoopTop
    \/ DrawFails
    \/ \E d \in Delays, x \in 0..TermW, y \in 0..TermH : MouseClick(d, x, y)
    \/ \E d \in Delays : Exit(d)
    \/ \E d \in Delays, x \in 0..TermW, y \in 0..TermH : Resized(d, x, y)
    \/ \E d \in Delays : Pause(d)
    \/ \E d \in Delays, increase \in BOOLEAN : Speed(d, increase)
    \/ \E d \in Delays : NoEvent(d)
    \/ Timeout
    \/ Decide

Spec == Init /\ [][Next]_vars

-----------------------------------------------------------------------------
(* The speed events alone: any sequence of BoardEvent::Speed(true) and     *)
(* BoardEvent::Speed(false) applied to the frame duration of the loop.     *)
(* Halving is not bounded; doubling stops at InitFrame * 2^MaxDoublings.   *)

InitSpeed ==
    /\ frame_duration = InitFrame
    /\ op = [name |-> "none", x |-> 0, y |-> 0]
    /\ pc = "poll"
    /\ pause_state = "Disabled"
    /\ now = 0
    /\ start = 0
    /\ last_updated = 0
    /\ should_compute_state = FALSE
    /\ iter = NewIter(InitFrame, 0)
    /\ board = seed(Board_new(1, 1))
    /\ panicked = FALSE
    /\ pre = NoBoard
    /\ life_log = EmptyLog
    /\ changed = None
    /\ OthersIdle

\* BoardEvent::Speed(increase); op keeps the event and the duration before it
SpeedEvent(increase) ==
    /\ increase \/ frame_duration * 2 <= InitFrame * Pow2(MaxDoublings)
    /\ frame_duration' = speed(frame_duration, increase)
    /\ op' = [name |-> IF increase THEN "speed_up" ELSE "speed_down",
              x |-> frame_duration, y |-> 0]
    /\ UNCHANGED <<board, panicked, pc, pause_state, now, start, last_updated,
                   should_compute_state, iter, life_log, changed, pre>>
    /\ UNCHANGED otherVars

NextSpeed == \E increase \in BOOLEAN : SpeedEvent(increase)

SpecSpeed == InitSpeed /\ [][NextSpeed]_vars

-----------------------------------------------------------------------------
(* src/game/tui.rs: handle_events on its own thread.  It polls the         *)
(* terminal, sends a BoardEvent down event_sink for every terminal event   *)
(* of interest and looks at should_exit before every poll.  The thread     *)
(* that spawned it holds the other end of both channels.  poller.reads is  *)
(* what read() has returned so far, poller.sink what send has accepted,    *)
(* poller.sink_at_exit the length of sink when the spawning thread sent on *)
(* should_exit or dropped its sender (-1 before that).                     *)

\* terminal events that read() returns
TermEvents ==
    {[kind |-> "Mouse", what |-> "Down(Left)", x |-> 1, y |-> 0],
     [kind |-> "Mouse", what |-> "Drag(Left)", x |-> 0, y |-> 1],
     [kind |-> "Mouse", what |-> "Down(Right)", x |-> 1, y |-> 1],
     [kind |-> "Key", what |-> "q", x |-> 0, y |-> 0],
     [kind |-> "Key", what |-> " ", x |-> 0, y |-> 0],
     [kind |-> "Key", what |-> "+", x |-> 0, y |-> 0],
     [kind |-> "Key", what |-> "-", x |-> 0, y |-> 0],
     [kind |-> "Key", what |-> "x", x |-> 0, y |-> 0],
     [kind |-> "Resize", what |-> "", x |-> 2, y |-> 1]}

\* the arms of `match read()?`: the BoardEvent that is sent, if any
board_event(e) ==
    CASE e.kind = "Mouse" /\ e.what \in {"Down(Left)", "Drag(Left)"} ->
             Some([name |-> "MouseClick", x |-> e.x, y |-> e.y])
      [] e.kind = "Key" /\ e.what = "q" ->
             Some([name |-> "Exit", x |-> 0, y |-> 0])
      [] e.kind = "Key" /\ e.what = " " ->
             Some([name |-> "Pause", x |-> 0, y |-> 0])
      [] e.kind = "Key" /\ e.what = "+" ->
             Some([name |-> "Speed(true)", x |-> 0, y |-> 0])
      [] e.kind = "Key" /\ e.what = "-" ->
             Some([name |-> "Speed(false)", x |-> 0, y |-> 0])
      [] e.kind = "Resize" ->
             Some([name |-> "Resized", x |-> e.x, y |-> e.y])
      [] OTHER -> None

\* a channel that hands over the newest event first
send_front(sink, receiver_alive, event) ==
    IF receiver_alive THEN <<event>> \o sink ELSE sink

\* event_sink.send(event): Err, and only a line on stderr, once the
\* receiver is gone
send(sink, receiver_alive, event) ==
    IF receiver_alive THEN Append(sink, event) ELSE sink

InitPoller ==
    /\ poller = [pc |-> "try_recv", result |-> "running",
                 should_exit |-> "Empty", receiver_alive |-> TRUE,
                 reads |-> <<>>, sink |-> <<>>, sink_at_exit |-> -1]
    /\ origin = NoOrigin
    /\ board = Board_new(TermW, TermH)
    /\ panicked = FALSE
    /\ pre = NoBoard
    /\ op = [name |-> "none", x |-> 0, y |-> 0]
    /\ life_log = EmptyLog
    /\ changed = None
    /\ LoopIdle

pollerFrame == <<board, panicked, pre, op, life_log, changed, origin>>

\* should_exit.try_recv() at the top of the loop
TryRecv ==
    /\ poller.pc = "try_recv"
    /\ poller' = CASE poller.should_exit = "Empty" ->
                         [poller EXCEPT !.pc = "poll"]
                   [] poller.should_exit = "Message" ->
                         [poller EXCEPT !.pc = "returned", !.result = "Ok",
                                        !.should_exit = "Empty"]
                   [] poller.should_exit = "Disconnected" ->
                         [poller EXCEPT !.pc = "returned", !.result = "Ok"]
    /\ UNCHANGED pollerFrame
    /\ UNCHANGED loopVars

\* poll(poll_duration)? is Ok(false)
PollFalse ==
    /\ poller.pc = "poll"
    /\ poller' = [poller EXCEPT !.pc = "try_recv"]
    /\ UNCHANGED pollerFrame
    /\ UNCHANGED loopVars

\* poll(poll_duration)? is Err: the ? returns it from handle_events
PollErr ==
    /\ poller.pc = "poll"
    /\ poller' = [poller EXCEPT !.pc = "returned", !.result = "Err(poll)"]
    /\ UNCHANGED pollerFrame
    /\ UNCHANGED loopVars

\* poll is Ok(true), read()? is Ok(e), and the arm of e
ReadEvent(e) ==
    /\ poller.pc = "poll"
    /\ Len(poller.reads) < MaxReads
    /\ poller' =
           [poller EXCEPT
               !.pc = "try_recv",
               !.reads = Append(@, e),
               !.sink = IF board_event(e) = None
                        THEN @
                        ELSE send(@, poller.receiver_alive, board_event(e)[1])]
    /\ UNCHANGED pollerFrame
    /\ UNCHANGED loopVars

\* poll is Ok(true), read()? is Err: the ? returns it from handle_events
ReadErr ==
    /\ poller.pc = "poll"
    /\ poller' = [poller EXCEPT !.pc = "returned", !.result = "Err(read)"]
    /\ UNCHANGED pollerFrame
    /\ UNCHANGED loopVars

\* the spawning thread sends () on should_exit
SendExit ==
    /\ poller.pc # "returned"
    /\ poller.should_exit = "Empty"
    /\ poller' = [poller EXCEPT !.should_exit = "Message",
                                !.sink_at_exit = Len(poller.sink)]
    /\ UNCHANGED pollerFrame
    /\ UNCHANGED loopVars

\* the spawning thread drops the sender of should_exit
DropExitSender ==
    /\ poller.pc # "returned"
    /\ poller.should_exit = "Empty"
    /\ poller' = [poller EXCEPT !.should_exit = "Disconnected",
                                !.sink_at_exit = Len(poller.sink)]
    /\ UNCHANGED pollerFrame
    /\ UNCHANGED loopVars

\* the spawning thread drops the receiver of event_sink
DropReceiver ==
    /\ poller.pc # "returned"
    /\ poller.receiver_alive
    /\ poller' = [poller EXCEPT !.receiver_alive = FALSE]
    /\ UNCHANGED pollerFrame
    /\ UNCHANGED loopVars

NextPoller ==
    \/ TryRecv
    \/ PollFalse
    \/ PollErr
    \/ \E e \in TermEvents : ReadEvent(e)
    \/ ReadErr
    \/ SendExit
    \/ DropExitSender
    \/ DropReceiver

SpecPoller == InitPoller /\ [][NextPoller]_vars

-----------------------------------------------------------------------------
(* Properties of the engine, checked under SpecLogic.                      *)

\* the Euclidean remainder of a by n >= 1, from its definition
EuclidMod(a, n) ==
    LET m == IF a < 0 THEN 0 - a ELSE a
    IN  CHOOSE r \in 0..(n - 1) : \E k \in (0 - m)..m : a = k * n + r

Offsets == (({-1, 0, 1}) \X ({-1, 0, 1})) \ {<<0, 0>>}

Wrapped(b, p, d) ==
    <<EuclidMod(p[1] + d[1], width(b)), EuclidMod(p[2] + d[2], height(b))>>

\* the offsets around p whose wrapped position holds a live cell
LiveOffsets(b, p) == {d \in Offsets : Index(b, Wrapped(b, p, d)) = "Live"}

IsLive(b, p) == Index(b, p) = "Live"

LiveSet(b) == {p \in Positions(b) : IsLive(b, p)}

\* C1: after next_state the cell at every position p is live iff the
\* snapshot cell at p was live with 2 or 3 live neighbours in the snapshot,
\* or was dead with exactly 3 live neighbours in the snapshot; the
\* dimensions are those of the snapshot.
C1_NextGenerationFromSnapshot ==
    (op.name = "next_state") =>
        /\ width(board) = width(pre) /\ height(board) = height(pre)
        /\ \A p \in Positions(pre) :
              IsLive(board, p) <=>
                  \/ IsLive(pre, p) /\ Cardinality(LiveOffsets(pre, p)) \in {2, 3}
                  \/ ~IsLive(pre, p) /\ Cardinality(LiveOffsets(pre, p)) = 3

\* a generation with a birth next to a cell that lives on
C1_Witness ==
    /\ op.name = "next_state"
    /\ \E p, q \in Positions(pre) :
          /\ ~IsLive(pre, p) /\ IsLive(board, p)
          /\ IsLive(pre, q) /\ IsLive(board, q)

\* the 3x3 grid whose only live cell is (0,0)
Corner3x3 == IndexMut(Board_new(3, 3), <<0, 0>>, "Live")

\* C2: count_live_neighbours(p) is the number of offsets (dx,dy) other
\* than (0,0) in {-1,0,1}^2 whose position, wrapped with the Euclidean
\* remainder, is live; it lies in 0..8; on the 3x3 grid whose only live
\* cell is (0,0) it is 1 at the 8 other positions and 0 at (0,0).
C2_ToroidalNeighbourCount ==
    /\ \A p \in Positions(board) :
          /\ count_live_neighbours(board, p) = Cardinality(LiveOffsets(board, p))
          /\ count_live_neighbours(board, p) \in 0..8
    /\ (board = Corner3x3) =>
          \A p \in Positions(board) :
              count_live_neighbours(board, p) = IF p = <<0, 0>> THEN 0 ELSE 1

\* the 3x3 corner grid, where (2,2) sees (0,0) only through both wraps
C2_Witness ==
    /\ board = Corner3x3
    /\ count_live_neighbours(board, <<2, 2>>) = 1

\* C3: changing only the state of p never changes the neighbour count
\* computed for p, on every grid size including 1 or 2 cells wide or high.
C3_SelfNeverCounted ==
    \A p \in Positions(board) :
        count_live_neighbours(IndexMut(board, p, flip(Index(board, p))), p)
            = count_live_neighbours(board, p)

\* C4: next_state returns true iff some cell of the grid after the call
\* differs from the grid before it, and false iff the grid equals the
\* snapshot (same dimensions, same cell at every position).
C4_ChangedIffDiffers ==
    (op.name = "next_state") =>
        /\ changed \in BOOLEAN
        /\ (changed = TRUE) <=>
               \E p \in Positions(pre) : Index(board, p) # Index(pre, p)
        /\ (changed = FALSE) <=>
               /\ width(board) = width(pre) /\ height(board) = height(pre)
               /\ \A p \in Positions(pre) : Index(board, p) = Index(pre, p)

\* a generation in which cells died and none was born, reported as changed
C4_Witness ==
    /\ op.name = "next_state"
    /\ changed = TRUE
    /\ LiveSet(board) # LiveSet(pre)
    /\ LiveSet(board) \subseteq LiveSet(pre)

\* C5: resize(w, h) with w, h >= 1 leaves a grid of width w and height h
\* in which (x,y) is live iff it lies in the old grid and was live there;
\* live cells outside the new bounds are dropped, all other cells are dead.
C5_ResizePreservesInBounds ==
    (op.name = "resize" /\ op.x >= 1 /\ op.y >= 1) =>
        /\ ~panicked
        /\ width(board) = op.x /\ height(board) = op.y
        /\ Len(board.inner) = op.x * op.y
        /\ \A p \in (0..(op.x - 1)) \X (0..(op.y - 1)) :
              /\ Index(board, p) \in Cell
              /\ IsLive(board, p) <=>
                     /\ p[1] < width(pre) /\ p[2] < height(pre)
                     /\ IsLive(pre, p)

\* a resize that grew one dimension, shrank the other, kept a live cell
\* and dropped a live cell
C5_Witness ==
    /\ op.name = "resize" /\ ~panicked
    /\ width(board) > width(pre) /\ height(board) < height(pre)
    /\ LiveSet(board) # {}
    /\ \E p \in LiveSet(pre) : p[2] >= height(board)

\* C25: resize to the current dimensions leaves the liveness of every
\* position (and the dimensions) as they are, and resize is idempotent: the
\* board that resize(G, w, h) has produced is left as it is by a second
\* resize to the same w and h.
C25_ResizeIdentityAndIdempotent ==
    ~panicked =>
        /\ LET same == resize(board, width(board), height(board))
           IN  /\ width(same) = width(board) /\ height(same) = height(board)
               /\ LiveSet(same) = LiveSet(board)
        /\ (op.name = "resize") =>
               /\ resize(board, op.x, op.y) = board
               /\ (op.x = width(pre) /\ op.y = height(pre)) =>
                      LiveSet(board) = LiveSet(pre)

\* a resize has dropped a live cell and kept another, and a resize to the
\* same dimensions would now change nothing
C25_Witness ==
    /\ op.name = "resize" /\ ~panicked
    /\ LiveSet(board) # {}
    /\ LiveSet(board) # LiveSet(pre)
    /\ resize(board, op.x, op.y) = board
    /\ resize(resize(pre, op.x, op.y), op.x, op.y) = resize(pre, op.x, op.y)

\* C6: Board::new(w, h) fails iff w = 0 or h = 0, and so does resize, which
\* then leaves the caller's grid as it was; no zero dimension is coerced.
C6_ZeroDimensionFails ==
    /\ (op.name \in {"new", "resize"}) =>
          (panicked <=> (op.x = 0 \/ op.y = 0))
    /\ (op.name = "new" /\ ~panicked) =>
          width(board) = op.x /\ height(board) = op.y
    /\ (op.name = "new" /\ panicked) => board = NoBoard
    /\ (op.name = "resize" /\ panicked) => board = pre

\* a failed resize to width 0 of a grid that holds live cells
C6_Witness ==
    /\ op.name = "resize" /\ op.x = 0 /\ op.y >= 1
    /\ panicked
    /\ LiveSet(board) # {}

-----------------------------------------------------------------------------
(* Properties of the control loop, checked under Spec.                     *)

\* the step is the end of a loop iteration (the polling slice has run out)
EndsIteration == ~iter.done /\ iter'.done

\* the step handles an input event inside the polling slice
InSlice == pc = "poll" /\ ~iter'.done

\* C7 (as stated): once a pause input has moved the state to JustEnabled,
\* the state is Activated at the end of that loop iteration, whatever
\* further input arrives in the same polling slice.
C7_JustEnabledAlwaysActivates ==
    (iter.done /\ iter.enabled) => pause_state = "Activated"

\* C7 (amended): the pause state changes only along Disabled -> JustEnabled
\* (pause input), JustEnabled -> Disabled and Activated -> Disabled (pause
\* input), JustEnabled -> Activated (end of the iteration); the end of an
\* iteration turns JustEnabled into Activated and leaves the other states.
C7_PauseStateMachine ==
    [][ /\ (InSlice /\ pause_state' # pause_state) =>
              \/ pause_state = "Disabled" /\ pause_state' = "JustEnabled"
              \/ pause_state = "JustEnabled" /\ pause_state' = "Disabled"
              \/ pause_state = "Activated" /\ pause_state' = "Disabled"
        /\ EndsIteration =>
              pause_state' = IF pause_state = "JustEnabled" THEN "Activated"
                             ELSE pause_state
        /\ (pause_state' # pause_state) => (InSlice \/ EndsIteration)
      ]_vars

\* an iteration whose pause input was still JustEnabled when the slice ended
C7_Witness ==
    /\ iter.done /\ iter.enabled
    /\ iter.after_poll = "JustEnabled"
    /\ pause_state = "Activated"

C9_ResumeSuppressedThisIteration ==
    (iter.done /\ iter.resumed) => iter.advanced = 0

\* C9 (amended): in the iteration in which a pause input moves the state
\* from Activated to Disabled the advance is no longer suppressed: it runs
\* iff should_compute_state; it is switching pause on that is one iteration
\* late: an iteration that ends its slice in JustEnabled advances iff
\* should_compute_state and leaves the state Activated.
C9_ResumeTakesEffectAtOnce ==
    iter.done =>
        /\ iter.resumed => (iter.advanced = 1 <=> should_compute_state)
        /\ iter.after_poll = "JustEnabled" =>
              /\ iter.advanced = 1 <=> should_compute_state
              /\ pause_state = "Activated"

\* an iteration that left the pause and advanced the generation
C9_Witness ==
    /\ iter.done /\ iter.resumed
    /\ iter.after_poll = "Disabled"
    /\ iter.advanced = 1

\* C10 (as stated): the loop ends only through Exit, and the iteration in
\* which Exit is handled still runs its remaining steps: the generation
\* advances when it is due and the pause state is not Activated.
C10_ExitFinishesIteration ==
    (pc = "done") =>
        /\ iter.exited
        /\ (should_compute_state /\ pause_state # "Activated") => iter.advanced = 1

\* C10 (amended): the loop ends normally exactly when an Exit event is
\* handled, and it ends at once: the rest of that iteration (the pause
\* state update, the generation advance, last_updated) does not run and no
\* step follows.
C10_ExitLeavesAtOnce ==
    /\ [](/\ (pc = "done") <=> iter.exited
          /\ iter.exited =>
                /\ ~iter.done
                /\ iter.advanced = 0
                /\ last_updated = iter.last0)
    /\ [][pc # "done"]_vars

\* the loop left by Exit in an iteration whose advance was due
C10_Witness ==
    /\ pc = "done" /\ iter.exited
    /\ should_compute_state /\ pause_state = "Disabled"
    /\ iter.advanced = 0

\* C16: once next_state has returned false on a grid, a further call on
\* that grid (no toggle or resize in between) returns false again and
\* leaves the grid identical.
C16_UnchangedStaysUnchanged ==
    [][(op.name = "next_state" /\ changed = FALSE /\ op'.name = "next_state") =>
           (changed' = FALSE /\ board' = board)]_vars

\* next_state has returned false on a grid that holds live cells
C16_Witness ==
    /\ op.name = "next_state" /\ changed = FALSE
    /\ board = pre
    /\ LiveSet(board) # {}

\* the 2x2 board of the iterator test: (0, 0) and (0, 1) live
IteratorTestBoard ==
    [width |-> 2, height |-> 2, inner |-> <<"Live", "Dead", "Live", "Dead">>]

\* the cells of a traversal, in the order they are yielded
CellsOf(entries) == [i \in DOMAIN entries |-> entries[i].cell]

\* C17: a traversal of a W x H board ends after W*H entries, starts at
\* (0, 0), yields every position exactly once with the cell stored there,
\* x ascending and y ascending within each x; a second traversal yields the
\* same; the 2x2 board with (0,0), (0,1) live yields live, live, dead, dead.
C17_IterationColumnMajor ==
    ~panicked =>
        LET e == iter_entries(board)
            W == width(board)
            H == height(board)
        IN  /\ Len(e) = W * H
            /\ e[1].index = <<0, 0>>
            /\ \A p \in Positions(board) :
                   Cardinality({i \in DOMAIN e : e[i].index = p}) = 1
            /\ \A i \in DOMAIN e :
                   /\ e[i].index = <<(i - 1) \div H, (i - 1) % H>>
                   /\ e[i].cell = board.inner[e[i].index[2] * W + e[i].index[1] + 1]
            /\ iter_entries(board) = e
            /\ (board = IteratorTestBoard) =>
                   CellsOf(e) = <<"Live", "Live", "Dead", "Dead">>

\* the board of the iterator test has been built and is traversed
C17_Witness ==
    /\ ~panicked
    /\ board = IteratorTestBoard
    /\ op.name = "flip"
    /\ CellsOf(iter_entries(board)) = <<"Live", "Live", "Dead", "Dead">>

-----------------------------------------------------------------------------
(* Properties of the board accessors, checked under SpecBoard.             *)

\* the cell stored at position p of board b, read from the cell vector
Stored(b, p) == b.inner[p[2] * b.width + p[1] + 1]

\* C18: a read or write at (x, y) fails iff x >= W or y >= H; check_index
\* returns a boolean for every position, true exactly when x < W and y < H;
\* a read returns the stored cell and changes nothing; a successful write
\* makes a read of that position return the written cell and leaves every
\* other position, W and H as they were; a failed one leaves the board.
C18_AccessorsBoundsChecked ==
    (op.name \in {"index", "set", "index_mut"}) =>
        LET p == <<op.x, op.y>>
            W == width(pre)
            H == height(pre)
            inside == op.x < W /\ op.y < H
        IN  /\ panicked <=> ~inside
            /\ \A q \in AnyPosition :
                   /\ check_index(pre, q) \in BOOLEAN
                   /\ check_index(pre, q) <=> (q[1] < W /\ q[2] < H)
            /\ width(board) = W /\ height(board) = H
            /\ Len(board.inner) = Len(pre.inner)
            /\ ~inside => board = pre
            /\ (inside /\ op.name = "index") =>
                   board = pre /\ changed = Stored(pre, p)
            /\ (inside /\ op.name # "index") =>
                   /\ Index(board, p) = op.cell
                   /\ Stored(board, p) = op.cell
                   /\ \A q \in Positions(pre) \ {p} :
                          Stored(board, q) = Stored(pre, q)

\* a write in the last row of a board has changed the cell it names
C18_Witness ==
    /\ op.name = "set" /\ ~panicked
    /\ width(pre) = 2 /\ height(pre) = 2
    /\ op.x = 1 /\ op.y = 1 /\ op.cell = "Live"
    /\ Stored(pre, <<1, 1>>) = "Dead"
    /\ Index(board, <<1, 1>>) = "Live"
    /\ Index(board, <<1, 0>>) = "Dead"

\* C19: Board::new(w, h) with w >= 1 and h >= 1 returns, and the board it
\* returns has width w, height h and Dead at every position.
C19_NewBoardAllDead ==
    (op.name = "new" /\ op.x >= 1 /\ op.y >= 1) =>
        /\ ~panicked
        /\ width(board) = op.x
        /\ height(board) = op.y
        /\ Len(board.inner) = op.x * op.y
        /\ \A x \in 0..(op.x - 1), y \in 0..(op.y - 1) :
               /\ check_index(board, <<x, y>>)
               /\ Index(board, <<x, y>>) = "Dead"

\* Board::new(2, 3) has returned
C19_Witness ==
    /\ op = [name |-> "new", x |-> 2, y |-> 3]
    /\ ~panicked
    /\ width(board) = 2 /\ height(board) = 3
    /\ Index(board, <<1, 2>>) = "Dead"

-----------------------------------------------------------------------------
(* Properties of the four-variant cell, checked under SpecCells.           *)

\* C21: flip turns a live cell (Alive or Born) into Died and a dead cell
\* (Dead or Died) into Born, so is_alive after the flip is the negation of
\* is_alive before it; two flips restore liveness, as in the test, where
\* Alive becomes Died and then Born.
C21_FlipInvertsAndMarks ==
    /\ Cell_flip("Alive") = "Died" /\ Cell_flip("Died") = "Born"
    /\ (op.name = "cell_flip") =>
           LET was == pre.inner[op.x + 1]
               is == board.inner[op.x + 1]
           IN  /\ was \in {"Alive", "Born"} => is = "Died"
               /\ was \in {"Dead", "Died"} => is = "Born"
               /\ Cell_is_alive(is) = ~Cell_is_alive(was)
               /\ Cell_is_alive(Cell_flip(is)) = Cell_is_alive(was)
               /\ \A i \in DOMAIN board.inner :
                      i # op.x + 1 => board.inner[i] = pre.inner[i]

\* a Died cell, which is what a flip makes of an Alive one, has been
\* flipped: it is live again, but Born and not Alive
C21_Witness ==
    /\ op.name = "cell_flip"
    /\ pre.inner[op.x + 1] = "Died"
    /\ board.inner[op.x + 1] = "Born"
    /\ board.inner[op.x + 1] # "Alive"

-----------------------------------------------------------------------------
(* Properties of the life log, checked under SpecLog.                      *)

\* C22: after every next_state call the log maps a position to Born iff
\* the cell went dead -> live in that call, to Died iff it went live ->
\* dead in that call, and has no entry for a cell the call left alone.
C22_LogOnlyLastGeneration ==
    (op.name = "next_state") =>
        /\ DOMAIN life_log \subseteq Positions(board)
        /\ \A p \in Positions(board) :
               LET was == Stored(pre, p)
                   is == Stored(board, p)
                   entry == IF p \in DOMAIN life_log THEN life_log[p] ELSE "None"
               IN  /\ entry = "Born" <=> (was = "Dead" /\ is = "Live")
                   /\ entry = "Died" <=> (was = "Live" /\ is = "Dead")
                   /\ (was = is) => entry = "None"

-----------------------------------------------------------------------------
(* Patterns: a caller sets up a grid of PatMin..PatMax cells a side with   *)
(* one blinker or one 2x2 block anywhere on it, wrapped at the edges, and  *)
(* advances it generation after generation.                                *)

\* the grid of width w and height h whose live cells are those of S
PatternGrid(w, h, S) ==
    [width |-> w, height |-> h,
     inner |-> [i \in 1..(w * h) |->
                   IF <<(i - 1) % w, (i - 1) \div w>> \in S THEN "Live" ELSE "Dead"]]

\* the three cells of a line through centre c
BlinkerCells(w, h, c, horizontal) ==
    IF horizontal
    THEN {<<EuclidMod(c[1] + k, w), c[2]>> : k \in {-1, 0, 1}}
    ELSE {<<c[1], EuclidMod(c[2] + k, h)>> : k \in {-1, 0, 1}}

\* the four cells of the block whose first corner is c
BlockCells(w, h, c) ==
    {<<EuclidMod(c[1] + i, w), EuclidMod(c[2] + j, h)>> : i, j \in {0, 1}}

InitPatterns ==
    /\ \E w \in PatMin..PatMax, h \in PatMin..PatMax :
       \E c \in (0..(w - 1)) \X (0..(h - 1)) :
          \/ \E horizontal \in BOOLEAN :
                origin = [kind |-> "blinker", c |-> c, horizontal |-> horizontal,
                          board |-> PatternGrid(w, h,
                                        BlinkerCells(w, h, c, horizontal))]
          \/ origin = [kind |-> "block", c |-> c, horizontal |-> FALSE,
                       board |-> PatternGrid(w, h, BlockCells(w, h, c))]
    /\ board = origin.board
    /\ panicked = FALSE
    /\ op = [name |-> "new", x |-> width(board), y |-> height(board)]
    /\ pre = NoBoard
    /\ life_log = EmptyLog
    /\ changed = None
    /\ LoopIdle
    /\ poller = NoPoller

NextPatterns == NextState

SpecPatterns == InitPatterns /\ [][NextPatterns]_vars

\* the line through the same centre at right angles to the blinker set up
Perpendicular ==
    PatternGrid(width(origin.board), height(origin.board),
        BlinkerCells(width(origin.board), height(origin.board),
                     origin.c, ~origin.horizontal))

\* C14: a blinker with dead space around it becomes the perpendicular line
\* through the same centre after one advance and the original grid after
\* two, and every one of these advances returns true.
C14_BlinkerPeriodTwo ==
    (origin.kind = "blinker" /\ op.name = "next_state") =>
        /\ changed = TRUE
        /\ pre \in {origin.board, Perpendicular}
        /\ (pre = origin.board) => board = Perpendicular
        /\ (pre = Perpendicular) => board = origin.board

\* the second advance of a blinker that lies across the corner of the grid
C14_Witness ==
    /\ origin.kind = "blinker" /\ origin.c = <<0, 0>>
    /\ op.name = "next_state"
    /\ pre = Perpendicular /\ board = origin.board

\* C15: a 2x2 fully live block on an otherwise dead grid of at least 4x4
\* is a still life: next_state leaves the grid identical and returns false.
C15_BlockStillLife ==
    (origin.kind = "block" /\ op.name = "next_state") =>
        /\ board = origin.board
        /\ board = pre
        /\ changed = FALSE

\* an advance of the smallest grid, with the block wrapped around both edges
C15_Witness ==
    /\ origin.kind = "block" /\ origin.c = <<PatMin - 1, PatMin - 1>>
    /\ width(board) = PatMin /\ height(board) = PatMin
    /\ op.name = "next_state" /\ changed = FALSE
    /\ Cardinality(LiveSet(board)) = 4

InBounds(b, p) ==
    /\ p[1] \in 0..(width(b) - 1)
    /\ p[2] \in 0..(height(b) - 1)

\* C13: after any sequence of resizes to w, h >= 1, cell toggles and
\* advances the grid has W >= 1, H >= 1 and one cell state for each of its
\* W * H positions; every neighbour index and every entry index next_state
\* uses on it lies within its bounds, so no get or set fails; next_state
\* leaves W and H as they were.
C13_AdvanceAlwaysDefined ==
    /\ ~panicked =>
          /\ width(board) >= 1 /\ height(board) >= 1
          /\ DOMAIN board.inner = 1..(width(board) * height(board))
          /\ \A i \in DOMAIN board.inner : board.inner[i] \in Cell
          /\ \A p \in Positions(board), i \in 1..9 :
                LET xy == neighbour_loop(p)[i]
                    index == valid_neighbour_index(board, p, xy[1], xy[2])
                IN  index = None \/ InBounds(board, index)
          /\ \A i \in 1..Len(iter_entries(board)) :
                InBounds(board, iter_entries(board)[i].index)
          /\ (op.name = "next_state") =>
                width(board) = width(pre) /\ height(board) = height(pre)
    /\ panicked => (op.name \in {"new", "resize"} /\ (op.x = 0 \/ op.y = 0))

\* an advance that changed a grid which is not square
C13_Witness ==
    /\ op.name = "next_state" /\ changed = TRUE
    /\ width(board) = 3 /\ height(board) = 2
    /\ LiveSet(board) # {}

\* what a click at (x, y) does to the grid owned at that moment
ClickEffect(x, y) ==
    /\ IF x < width(board) /\ y < height(board)
       THEN /\ IsLive(board', <<x, y>>) <=> ~IsLive(board, <<x, y>>)
            /\ Index(board', <<x, y>>) \in Cell
            /\ \A p \in Positions(board) \ {<<x, y>>} :
                  Index(board', p) = Index(board, p)
            /\ width(board') = width(board) /\ height(board') = height(board)
            /\ Len(board'.inner) = Len(board.inner)
       ELSE board' = board
    /\ pause_state' = pause_state
    /\ frame_duration' = frame_duration
    /\ panicked' = panicked
    /\ pc' = pc

\* C12: a click at (x,y) in bounds of the current grid toggles the liveness
\* of the cell at (x,y) and of no other cell, and leaves the dimensions,
\* the pause state and the frame duration as they were; a click out of
\* bounds changes nothing and raises no error.
C12_ClickTogglesOneCell ==
    [][\A d \in Delays, x \in 0..TermW, y \in 0..TermH :
           MouseClick(d, x, y) => ClickEffect(x, y)]_vars

\* before any generation advance, a 1x2 grid with (0,1) live: (0,1) is no
\* seed cell, so a click has toggled it
C12_Witness ==
    /\ pc = "poll" /\ last_updated = 0
    /\ width(board) = 1 /\ height(board) = 2
    /\ IsLive(board, <<0, 0>>) /\ IsLive(board, <<0, 1>>)

-----------------------------------------------------------------------------
(* Properties of the input thread, checked under SpecPoller.               *)

\* C20: an error of poll or read costs one poll attempt and nothing else:
\* handle_events does not stop because of it, it returns only when it was
\* asked to exit.
C20_InputErrorNeverStopsPolling ==
    (poller.pc = "returned") => poller.result = "Ok"

\* the BoardEvents of the terminal events in `reads`, in their order
ForwardedOf(reads) ==
    LET f == SelectSeq(reads, LAMBDA e : board_event(e) # None)
    IN  [i \in DOMAIN f |-> board_event(f[i])[1]]

IsPrefix(s, t) == Len(s) <= Len(t) /\ SubSeq(t, 1, Len(s)) = s

\* the poller takes a step and read() returns an event in it
ReadsOne == Len(poller'.reads) > Len(poller.reads)

\* the poller looks at should_exit
ChecksExit == poller.pc = "try_recv" /\ poller'.pc # "try_recv"

\* C24: the poller never touches the grid; what the channel has accepted
\* is, in the order of reading, the events of interest read while the
\* receiver was there (all of them if it still is); a read whose send
\* fails leaves the poller running; a check of should_exit after a message
\* or after the sender was dropped returns Ok; and at most one event is
\* forwarded after that message or drop.
C24_PollerOnlyForwardsInOrder ==
    /\ [](/\ board = Board_new(TermW, TermH)
          /\ IsPrefix(poller.sink, ForwardedOf(poller.reads))
          /\ poller.receiver_alive => poller.sink = ForwardedOf(poller.reads)
          /\ poller.sink_at_exit >= 0 =>
                 Len(poller.sink) <= poller.sink_at_exit + 1)
    /\ [][/\ board' = board
          /\ ReadsOne => poller'.pc = "try_recv" /\ poller'.result = "running"
          /\ (ChecksExit /\ poller.should_exit # "Empty") =>
                 poller'.pc = "returned" /\ poller'.result = "Ok"
          /\ (ChecksExit /\ poller.should_exit = "Empty") =>
                 poller'.pc = "poll"]_vars

\* one event was forwarded, the receiver went away, exit was asked for
\* while the poller was polling, a second event of interest was read and
\* could not be sent, and the next check of should_exit returned Ok
C24_Witness ==
    /\ poller.pc = "returned" /\ poller.result = "Ok"
    /\ ~poller.receiver_alive
    /\ Len(poller.reads) = 2
    /\ Len(ForwardedOf(poller.reads)) = 2
    /\ poller.sink = <<ForwardedOf(poller.reads)[1]>>
    /\ poller.sink_at_exit = 1

-----------------------------------------------------------------------------
(* Properties of the speed events, checked under SpecSpeed.                *)

\* C11: the frame duration is a strictly positive interval in every
\* reachable state: after any sequence of speed-up and speed-down events
\* it is still greater than zero.
C11_FrameDurationPositive == frame_duration > 0

\* a speed-up is followed at once by a speed-down, or the other way round
UpThenDown == op.name = "speed_up" /\ op'.name = "speed_down"
DownThenUp == op.name = "speed_down" /\ op'.name = "speed_up"

\* C23 as stated: a speed-up followed by a speed-down, and a speed-down
\* followed by a speed-up, both restore exactly the frame duration that
\* was there before the pair (op.x, the duration before the first event).
C23_SpeedEventsAreInverse ==
    [][/\ UpThenDown => frame_duration' = op.x
       /\ DownThenUp => frame_duration' = op.x]_vars

\* C23 as the code has it: a speed-down followed by a speed-up restores
\* the frame duration exactly; a speed-up followed by a speed-down restores
\* it when it was an even number of nanoseconds and gives one nanosecond
\* less when it was odd.
C23_SpeedDownThenUpIsInverse ==
    [][/\ DownThenUp => frame_duration' = op.x
       /\ UpThenDown =>
              frame_duration' = IF op.x % 2 = 0 THEN op.x ELSE op.x - 1]_vars

\* 15625 ns (64 ms halved twelve times) has been halved and doubled again
C23_Witness ==
    /\ op.name = "speed_down"
    /\ op.x = 7812
    /\ frame_duration = 15624

====
